---- MODULE Spec2Model ----
(***************************************************************************)
(* Model of OpenAiWingman (src/wingmen/open_ai_wingman.py): the turn       *)
(* cycle _get_response_for_transcript, the conversation history and its    *)
(* retention trimming, the tool round, the scalar and complex memories,    *)
(* the delayed-action tasks and the command loop.                          *)
(*                                                                         *)
(* Python values: a str is a sequence of tokens (<<"Ok">>), None is the    *)
(* empty sequence, "" is <<"">>.  A message is a record role/content/      *)
(* name/tool_call_id/tool_calls.  The code between two points where the    *)
(* coroutine really suspends is one action; `running` is the coroutine     *)
(* that owns the event loop.                                               *)
(***************************************************************************)
EXTENDS Integers, Sequences, FiniteSets, TLC

VARIABLES messages, logged_memories, files, wait_task, last_transcript_locale,
          remember_messages, turn, running, turns, calls,
          tasks, loop_task, looping, dispatched, requested, saved_memories

vars == <<messages, logged_memories, files, wait_task, last_transcript_locale,
          remember_messages, turn, running, turns, calls,
          tasks, loop_task, looping, dispatched, requested, saved_memories>>

\* the command loop, the record of the last handler applied on its own and
\* the stop request that waits for the event loop
loopvars == <<loop_task, looping, dispatched, requested>>

\* ---------------------------------------------------------------- bounds
\* turns begun plus tool calls requested in one run
MaxWork == 4
\* largest configured remember_messages
MaxRemember == 2
\* handler calls applied in one run of MemorySpec or LoopSpec
MaxCalls == 3
\* iterations of the command loop that are followed
MaxLooped == 3

\* ---------------------------------------------------------- python values
PyNone == <<>>
Str(s) == <<s>>
Truthy(x) == x # PyNone /\ x # Str("")
PyStr(x) == IF x = PyNone THEN Str("None") ELSE x
NoLimit == 0 - 1

\* config["features"]["tts_provider"]: with edge_tts _play_to_user awaits the
\* network, so the coroutine suspends; the other providers are called
\* synchronously, which is the run where PlayDone follows at once
tts_provider == "edge_tts"

Turns == {"fg", "bg"}
Locales == {"en"}

\* ------------------------------------------------------- command catalog
Commands ==
  << [name |-> "fire",   instant_activation |-> TRUE,  responses |-> <<"Firing">>],
     [name |-> "silent", instant_activation |-> TRUE,  responses |-> <<>>],
     [name |-> "gear",   instant_activation |-> FALSE, responses |-> <<"Gear down">>],
     [name |-> "lights", instant_activation |-> FALSE, responses |-> <<>>] >>

NoCommand == [name |-> "", instant_activation |-> FALSE, responses |-> <<>>]

Transcripts == {"hello", "fire", "silent"}

\* the first command of the catalog whose index is in `hits`, None when empty
FirstCommand(hits) ==
  IF hits = {} THEN NoCommand
  ELSE Commands[CHOOSE i \in hits : \A j \in hits : i <= j]

\* Wingman._get_command: lookup by exact name, None when absent
_get_command(command_name) ==
  FirstCommand({i \in 1..Len(Commands) : Commands[i].name = command_name})

\* Wingman._execute_instant_activation_command: first instant command that
\* matches the transcript, None when there is none
_execute_instant_activation_command(transcript) ==
  FirstCommand({i \in 1..Len(Commands) :
                  Commands[i].instant_activation /\ Commands[i].name = transcript})

\* Wingman._select_command_response: the replies it may pick; None for a
\* command without response variants
_select_command_response(command) ==
  IF Len(command.responses) = 0 THEN {PyNone}
  ELSE {Str(command.responses[i]) : i \in 1..Len(command.responses)}

\* -------------------------------------------------------------- messages
Msg(role, content, name, id, ncalls) ==
  [role |-> role, content |-> content, name |-> name,
   tool_call_id |-> id, tool_calls |-> ncalls]

SystemMsg(content) == Msg("system", content, "", 0, 0)
UserMsg(content) == Msg("user", content, "", 0, 0)
AssistantMsg(content, ncalls) == Msg("assistant", content, "", 0, ncalls)
ToolMsg(content, name, id) == Msg("tool", content, name, id, 0)

Context == Str("context")

RECURSIVE Flatten(_)
Flatten(pairs) ==
  IF pairs = <<>> THEN <<>>
  ELSE pairs[1][1] \o <<":">> \o pairs[1][2] \o <<",">> \o Flatten(Tail(pairs))

\* "{0}".format(d) of a dict d: its items in insertion order; keys and str
\* values are python strs, a value that is a dict is given by its own Repr
Repr(d) == <<"{">> \o Flatten(d) \o <<"}">>

\* "{{ {0} }}".format(self._logged_memories)
MemorySummary(d) == <<"{ ">> \o Repr(d) \o <<" }">>

UserCount(msgs) == Cardinality({i \in 1..Len(msgs) : msgs[i].role = "user"})

\* ------------------------------------------------------ python list slice
\* index normalisation of a[start:stop] on a list of length n
SliceIndex(i, n) == IF i < 0 THEN (IF n + i < 0 THEN 0 ELSE n + i)
                    ELSE IF i > n THEN n ELSE i

\* del a[start:stop], 0-based as in python
DelSlice(a, start, stop) ==
  LET n == Len(a)
      s == SliceIndex(start, n)
      e == SliceIndex(stop, n)
  IN IF s >= e THEN a
     ELSE SubSeq(a, 1, s) \o SubSeq(a, e + 1, n)

\* ------------------------------------------------------------- retention
\* the reversed scan of _cleanup_conversation_history; i is the 0-based
\* index of the message looked at, cutoff_index = i on entry
RECURSIVE CutoffScan(_, _, _, _)
CutoffScan(msgs, i, user_message_count, limit) ==
  IF i < 0 THEN [cutoff_index |-> i, user_message_count |-> user_message_count]
  ELSE IF msgs[i + 1].role = "user"
       THEN IF user_message_count + 1 = limit
            THEN [cutoff_index |-> i, user_message_count |-> user_message_count + 1]
            ELSE CutoffScan(msgs, i - 1, user_message_count + 1, limit)
       ELSE CutoffScan(msgs, i - 1, user_message_count, limit)

\* the trim with context_offset 1: only the context message is protected
cleanup_OffsetOne(msgs, limit) ==
  IF limit = NoLimit \/ Len(msgs) = 0
  THEN [messages |-> msgs, deleted |-> 0]
  ELSE LET context_offset == IF msgs[1].role = "system" THEN 1 ELSE 0
           scan == CutoffScan(msgs, Len(msgs) - 1, 0, limit)
       IN IF scan.user_message_count < limit
          THEN [messages |-> msgs, deleted |-> 0]
          ELSE [messages |-> DelSlice(msgs, context_offset, scan.cutoff_index),
                deleted |-> scan.cutoff_index - context_offset]

\* the trim with <= in the keep check: a History that holds the limit is
\* left alone
cleanup_KeepsAtLimit(msgs, limit) ==
  IF limit = NoLimit \/ Len(msgs) = 0
  THEN [messages |-> msgs, deleted |-> 0]
  ELSE LET context_offset == IF msgs[1].role = "system" THEN 2 ELSE 0
           scan == CutoffScan(msgs, Len(msgs) - 1, 0, limit)
       IN IF scan.user_message_count <= limit
          THEN [messages |-> msgs, deleted |-> 0]
          ELSE [messages |-> DelSlice(msgs, context_offset, scan.cutoff_index),
                deleted |-> scan.cutoff_index - context_offset]

\* the trim without the keep check of lines 319-321
cleanup_NoKeepCheck(msgs, limit) ==
  IF limit = NoLimit \/ Len(msgs) = 0
  THEN [messages |-> msgs, deleted |-> 0]
  ELSE LET context_offset == IF msgs[1].role = "system" THEN 2 ELSE 0
           scan == CutoffScan(msgs, Len(msgs) - 1, 0, limit)
       IN [messages |-> DelSlice(msgs, context_offset, scan.cutoff_index),
           deleted |-> scan.cutoff_index - context_offset]

\* the trim that deletes from the cutoff to the end: the oldest messages
\* stay
cleanup_KeepsOldest(msgs, limit) ==
  IF limit = NoLimit \/ Len(msgs) = 0
  THEN [messages |-> msgs, deleted |-> 0]
  ELSE LET context_offset == IF msgs[1].role = "system" THEN 2 ELSE 0
           scan == CutoffScan(msgs, Len(msgs) - 1, 0, limit)
       IN IF scan.user_message_count < limit
          THEN [messages |-> msgs, deleted |-> 0]
          ELSE [messages |-> DelSlice(msgs, scan.cutoff_index, Len(msgs)),
                deleted |-> scan.cutoff_index - context_offset]

_cleanup_conversation_history(msgs, limit) ==
  IF limit = NoLimit \/ Len(msgs) = 0
  THEN [messages |-> msgs, deleted |-> 0]
  ELSE LET context_offset == IF msgs[1].role = "system" THEN 2 ELSE 0
           scan == CutoffScan(msgs, Len(msgs) - 1, 0, limit)
       IN IF scan.user_message_count < limit
          THEN [messages |-> msgs, deleted |-> 0]
          ELSE [messages |-> DelSlice(msgs, context_offset, scan.cutoff_index),
                deleted |-> scan.cutoff_index - context_offset]

\* ---------------------------------------------------------------- dicts
\* a python dict: the sequence of its <<key, value>> items, insertion order
HasKey(d, k) == \E i \in 1..Len(d) : d[i][1] = k
DictGet(d, k) == d[CHOOSE i \in 1..Len(d) : d[i][1] = k][2]
\* d[k] = v as an append: an existing item of k stays
DictSet_Appends(d, k, v) == Append(d, <<k, v>>)

\* d[k] = v
DictSet(d, k, v) ==
  IF HasKey(d, k) THEN [i \in 1..Len(d) |-> IF d[i][1] = k THEN <<k, v>> ELSE d[i]]
  ELSE Append(d, <<k, v>>)

\* ----------------------------------------------------------------- json
JsonObject == Str("{\"p\": \"1\"}")
JsonString == Str("\"2\"")
NotJson == Str("{not json")

\* json.loads: the parsed value, or the JSONDecodeError it raises
JsonLoads(text) ==
  IF text = JsonObject THEN [ok |-> TRUE, value |-> <<<<Str("p"), Str("1")>>>>]
  ELSE IF text = JsonString THEN [ok |-> TRUE, value |-> Str("2")]
  ELSE [ok |-> FALSE, value |-> <<>>]

\* json.dump of a dict of strs: the members of the JSON object, in order
JsonDump(d) == [i \in 1..Len(d) |-> [name |-> d[i][1], string |-> d[i][2]]]

\* json.load of such a document: the dict of its members
JsonLoad(members) == [i \in 1..Len(members) |-> <<members[i].name, members[i].string>>]

\* ------------------------------------------------- the logged-memories file
\* wingmen/{name}_logged_memories.json before anything was saved
NoFile == [exists |-> FALSE, members |-> <<>>]

\* _save_logged_memories that leaves the file as it is
save_Deferred(mem) == <<>>

\* _save_logged_memories: open(file_path, "w") and json.dump of the mapping;
\* the value is the sequence of documents written
_save_logged_memories(mem) == <<[exists |-> TRUE, members |-> JsonDump(mem)]>>

\* the file after the documents a handler wrote
Written(file, saved) == IF saved = <<>> THEN file ELSE saved[Len(saved)]

\* _load_logged_memories: the mapping and the memory-summary message are
\* replaced when the file exists
_load_logged_memories(msgs, mem, file) ==
  IF file.exists
  THEN [messages |-> [msgs EXCEPT ![2].content = MemorySummary(JsonLoad(file.members))],
        logged_memories |-> JsonLoad(file.members)]
  ELSE [messages |-> msgs, logged_memories |-> mem]

\* ------------------------------------------------------- complex objects
\* a file name is a python str whose last token is its extension, if any
EndsWithJson(file_name) == file_name # <<>> /\ file_name[Len(file_name)] = ".json"

\* _save_complex_memory: file_path = f"wingmen/{self.name}/{file_name}.json"
SavePath(file_name) == file_name \o <<".json">>

\* _get_complex_memory: ".json" is added only when file_name lacks it
GetPath(file_name) == IF EndsWithJson(file_name) THEN file_name
                      ELSE file_name \o <<".json">>

_save_complex_memory(fs, file_name, obj) == DictSet(fs, SavePath(file_name), obj)

NoSuchMemory == Str("No such memory")

\* _get_complex_memory: the stored document, or the str "No such memory"
_get_complex_memory(fs, file_name) ==
  IF HasKey(fs, GetPath(file_name))
  THEN [found |-> TRUE, obj |-> DictGet(fs, GetPath(file_name))]
  ELSE [found |-> FALSE, obj |-> <<>>]

\* ------------------------------------------------------------ tool calls
\* a tool call of a completion: function.name and function.arguments; args
\* is "ok" (a JSON object with the keys the handler reads), "missing" (a
\* JSON object without them) or "bad" (not JSON).  The arguments by tool:
\*   execute_command        a = command_name
\*   log_memory             a = name, b = value
\*   create_complex_object  a = name, b = file_name, c = content
\*   get_complex_object     a = file_name
\*   modify_complex_object  a = file_name, b = key, c = value
\*   wait_for_then          a = action, n = wait_time
\*   start_command_loop     a = command_name, n = amount
Call(name, args, a, b, c, n) ==
  [name |-> name, args |-> args, a |-> a, b |-> b, c |-> c, n |-> n]

ToolCalls ==
  { Call("execute_command", "ok", Str("gear"), <<>>, <<>>, 0),
    Call("execute_command", "ok", Str("lights"), <<>>, <<>>, 0),
    Call("log_memory", "ok", Str("k"), Str("a"), <<>>, 0),
    Call("log_memory", "bad", <<>>, <<>>, <<>>, 0),
    Call("get_complex_object", "missing", <<>>, <<>>, <<>>, 0),
    Call("create_complex_object", "ok", Str("f"), Str("f"), JsonObject, 0),
    Call("get_complex_object", "ok", Str("f"), <<>>, <<>>, 0),
    Call("modify_complex_object", "ok", Str("f"), Str("p"), JsonString, 0),
    Call("modify_complex_object", "ok", Str("f"), Str("p"), NotJson, 0),
    Call("wait_for_then", "ok", Str("hello"), <<>>, <<>>, 1),
    Call("bogus", "ok", <<>>, <<>>, <<>>, 0) }

\* the tool calls of the runs that are about the delayed action: two
\* different wait_for_then, and a command whose reply is played
TimerCalls ==
  { Call("wait_for_then", "ok", Str("hello"), <<>>, <<>>, 1),
    Call("wait_for_then", "ok", Str("fire"), <<>>, <<>>, 2),
    Call("wait_for_then", "missing", <<>>, <<>>, <<>>, 0),
    Call("execute_command", "ok", Str("gear"), <<>>, <<>>, 0) }

CommandNamed(s) == _get_command(s[1])

\* what a handler leaves behind: the reply pair, the stores, whether it
\* raised, whether it awaited _play_to_user, the delayed task it started,
\* and the documents it wrote to the logged-memories file, in order
Outcome(function_response, instant_response, msgs, mem, fs, raised, plays, task) ==
  [function_response |-> function_response, instant_response |-> instant_response,
   messages |-> msgs, logged_memories |-> mem, files |-> fs,
   raised |-> raised, plays |-> plays, task |-> task, saved |-> <<>>]

NoTask == [state |-> "none", wait_time |-> 0, action |-> ""]

\* self.loop_task before the first _start_command_loop, and the task that
\* _start_command_loop creates: the command and the amount the tool call
\* asked for, the amount _loop received, and the local `looped`
NoLoopTask == [state |-> "none", command |-> "", asked |-> 0, amount |-> 0, looped |-> 0]

\* no stop or replace request waits for the event loop
NoRequest == [made |-> FALSE, looped |-> 0]

\* no handler applied yet
NoDispatch == [call |-> Call("", "ok", <<>>, <<>>, <<>>, 0), function_response |-> Str(""),
               instant_response |-> Str(""), raised |-> FALSE, logged_memories |-> <<>>, files |-> <<>>,
               loop_task |-> NoLoopTask]

\* self.wait_task: the position in `tasks` of the task it refers to, None
\* before the first _wait_for_then
NoWaitTask == 0

\* `if self.wait_task: self.wait_task.cancel()` without the cancel
Cancel_Nothing(ts, ref) == ts

\* `if self.wait_task: self.wait_task.cancel()` on the tasks of the event
\* loop: a task that has not started is cancelled and never runs; a task
\* that runs gets CancelledError at its next suspension (Replaced, Frames);
\* a finished task is left as it is
Cancel(ts, ref) ==
  IF ref # NoWaitTask /\ ts[ref].state = "pending"
  THEN [ts EXCEPT ![ref].state = "cancelled"]
  ELSE ts

\* the tasks after _wait_for_then: the cancel of line 1016, then the
\* asyncio.create_task of line 1035
Scheduled(ts, ref, task) == Append(Cancel(ts, ref), task)

Raised(msgs, mem, fs) == Outcome(Str(""), Str(""), msgs, mem, fs, TRUE, FALSE, NoTask)

\* _log_memory without the rewrite of messages[1]
log_memory_KeepsSummary(msgs, mem, fs, name, value) ==
  LET mem2 == DictSet(mem, name, value)
  IN [Outcome(Str("Noted"), Str(""), msgs, mem2, fs, FALSE, FALSE, NoTask)
        EXCEPT !.saved = _save_logged_memories(mem2)]

\* _log_memory: upsert, rewrite the memory-summary message, save
_log_memory(msgs, mem, fs, name, value) ==
  LET mem2 == DictSet(mem, name, value)
  IN [Outcome(Str("Noted"), Str(""),
              [msgs EXCEPT ![2].content = MemorySummary(mem2)], mem2, fs,
              FALSE, FALSE, NoTask)
        EXCEPT !.saved = _save_logged_memories(mem2)]

\* _create_complex_memory(file_name, name, content)
_create_complex_memory(msgs, mem, fs, file_name, name, content) ==
  LET parsed == JsonLoads(content)
      obj == IF Truthy(content) THEN parsed.value ELSE <<>>
      logged == _log_memory(msgs, mem, _save_complex_memory(fs, file_name, obj),
                            name, file_name)
  IN IF Truthy(content) /\ ~parsed.ok THEN Raised(msgs, mem, fs)
     ELSE [logged EXCEPT !.function_response =
             Str("Empty complex object created. No data logged. Must now specify properties to start modifying.")]

\* _modify_complex_memory that stores the raw value before it parses it
modify_SavesBeforeParse(msgs, mem, fs, file_name, key, value) ==
  LET memory == _get_complex_memory(fs, file_name)
      parsed == JsonLoads(value)
      raw == _save_complex_memory(fs, file_name, DictSet(memory.obj, key, value))
  IN IF ~memory.found THEN Raised(msgs, mem, fs)
     ELSE IF ~parsed.ok THEN Raised(msgs, mem, raw)
     ELSE Outcome(Str("Modified ") \o key \o Str(" to ") \o value, Str(""),
                  msgs, mem,
                  _save_complex_memory(fs, file_name, DictSet(memory.obj, key, parsed.value)),
                  FALSE, FALSE, NoTask)

\* _modify_complex_memory(file_name, key, value): json.loads(value) raises
\* on a value that is not JSON, `memory[key] = obj` raises TypeError when
\* memory is the str "No such memory"; both before anything is written
_modify_complex_memory(msgs, mem, fs, file_name, key, value) ==
  LET memory == _get_complex_memory(fs, file_name)
      parsed == JsonLoads(value)
  IN IF ~parsed.ok \/ ~memory.found THEN Raised(msgs, mem, fs)
     ELSE Outcome(Str("Modified ") \o key \o Str(" to ") \o value, Str(""),
                  msgs, mem,
                  _save_complex_memory(fs, file_name, DictSet(memory.obj, key, parsed.value)),
                  FALSE, FALSE, NoTask)

\* _wait_for_then: the task that _wait_then_do_task creates
_wait_for_then(msgs, mem, fs, wait_time, action) ==
  Outcome(Str("Respond with a message that acknowledges the wait_time and action"),
          Str(""), msgs, mem, fs, FALSE, FALSE,
          [state |-> "pending", wait_time |-> wait_time, action |-> action[1]])

\* _execute_command(command): whatever Wingman._execute_command does and
\* returns for the command, or for the None of an unknown name, the value
\* returned is "Ok"
_execute_command(command) == Str("Ok")

\* a function name without a branch that answers with a text of its own
NoBranch_Reports(msgs, mem, fs) ==
  Outcome(Str("Unknown function"), Str(""), msgs, mem, fs, FALSE, FALSE, NoTask)

\* no `if function_name == ...` of lines 484-541 matches: the pair of lines
\* 482-483 is returned as it was initialised
NoBranchTaken(msgs, mem, fs) ==
  Outcome(Str(""), Str(""), msgs, mem, fs, FALSE, FALSE, NoTask)

\* _execute_command_by_function_call(function_name, function_args); response
\* is the variant _select_command_response picks
_execute_command_by_function_call(msgs, mem, fs, call, response) ==
  IF call.args = "missing" /\ call.name \in
       {"execute_command", "log_memory", "create_complex_object",
        "get_complex_object", "modify_complex_object", "wait_for_then"}
  THEN Raised(msgs, mem, fs)
  ELSE IF call.name = "execute_command"
  THEN LET command == CommandNamed(call.a)
           speaks == command # NoCommand /\ Len(command.responses) > 0
       IN Outcome(_execute_command(command), IF speaks THEN response ELSE Str(""),
                  msgs, mem, fs, FALSE, speaks, NoTask)
  ELSE IF call.name = "log_memory"
  THEN _log_memory(msgs, mem, fs, call.a, call.b)
  ELSE IF call.name = "create_complex_object"
  THEN \* lines 507-511 pass (name, file_name, content) by position to the
       \* parameters (file_name, name, content)
       _create_complex_memory(msgs, mem, fs, call.a, call.b, call.c)
  ELSE IF call.name = "get_complex_object"
  THEN LET obj == _get_complex_memory(fs, call.a)
       IN Outcome(IF obj.found THEN Repr(obj.obj) ELSE NoSuchMemory, Str(""),
                  msgs, mem, fs, FALSE, FALSE, NoTask)
  ELSE IF call.name = "modify_complex_object"
  THEN _modify_complex_memory(msgs, mem, fs, call.a, call.b, call.c)
  ELSE IF call.name = "wait_for_then"
  THEN _wait_for_then(msgs, mem, fs, call.n, call.a)
  ELSE NoBranchTaken(msgs, mem, fs)

\* the variants an execute_command call may speak
CallResponses(call) ==
  IF call.name = "execute_command" /\ call.args = "ok" /\ CommandNamed(call.a) # NoCommand
  THEN _select_command_response(CommandNamed(call.a))
  ELSE {PyNone}

\* _finalize_response that fills the function-path reply only
finalize_FunctionPathOnly(msgs, summarize_response) ==
  IF summarize_response = PyNone
  THEN <<msgs[Len(msgs)].content, PyNone>>
  ELSE <<summarize_response, PyNone>>

\* _finalize_response(summarize_response)
_finalize_response(msgs, summarize_response) ==
  IF summarize_response = PyNone
  THEN <<msgs[Len(msgs)].content, msgs[Len(msgs)].content>>
  ELSE <<summarize_response, summarize_response>>

\* ----------------------------------------------------------------- turns
IdleTurn == [pc |-> "idle", transcript |-> "", tool_calls |-> <<>>, idx |-> 0,
             instant_response |-> PyNone, result |-> <<PyNone, PyNone>>,
             function_response |-> Str(""), must_cancel |-> FALSE, cancels |-> FALSE,
             gpt_calls |-> 0, summarize_calls |-> 0, path |-> "",
             before |-> <<>>, cleaned |-> <<>>, deleted |-> 0]

Init ==
  /\ messages = <<SystemMsg(Context), SystemMsg(MemorySummary(<<>>))>>
  /\ logged_memories = <<>>
  /\ files = <<>>
  /\ wait_task = NoWaitTask
  /\ last_transcript_locale = "none"
  /\ remember_messages \in {NoLimit} \cup 0..MaxRemember
  /\ turn = [t \in Turns |-> IdleTurn]
  /\ running = "none"
  /\ turns = 0
  /\ calls = 0
  /\ tasks = <<>>
  /\ loop_task = NoLoopTask
  /\ looping = TRUE
  /\ dispatched = NoDispatch
  /\ requested = NoRequest
  /\ saved_memories = NoFile

\* _get_response_for_transcript up to the first model call (lines 255-260):
\* _add_user_message (trim, append), _try_instant_activation
Enter(t, transcript, locale) ==
  LET trim == _cleanup_conversation_history(messages, remember_messages)
      command == _execute_instant_activation_command(transcript)
  IN \E response \in (IF command # NoCommand THEN _select_command_response(command)
                      ELSE {PyNone}) :
       /\ last_transcript_locale' = locale
       /\ messages' = Append(trim.messages, UserMsg(Str(transcript)))
       /\ turn' = [turn EXCEPT ![t] =
            [IdleTurn EXCEPT
               !.pc = IF Truthy(response) THEN "done" ELSE "gpt",
               !.transcript = transcript,
               !.path = IF Truthy(response) THEN "instant" ELSE "",
               !.result = IF Truthy(response) THEN <<response, response>>
                          ELSE <<PyNone, PyNone>>,
               !.before = messages, !.cleaned = trim.messages,
               !.deleted = trim.deleted]]
       /\ running' = IF Truthy(response) THEN "none" ELSE t
       /\ turns' = turns + 1

\* no coroutine has a return or an exception on its way to its caller
Settled == \A t \in Turns : turn[t].pc \in {"idle", "play"}

\* the caller awaits _get_response_for_transcript(transcript, locale)
Begin ==
  /\ running = "none"
  /\ Settled
  /\ turn["fg"].pc = "idle"
  /\ turns + calls < MaxWork
  /\ \E transcript \in Transcripts, locale \in Locales : Enter("fg", transcript, locale)
  /\ UNCHANGED <<logged_memories, files, wait_task, remember_messages, calls,
                 tasks, loopvars, saved_memories>>

\* what self.openai.ask may return for the first call: None, or a completion
\* whose message has a content (None with tool calls) and tool calls
RECURSIVE CallSeqs(_, _)
CallSeqs(offered, n) ==
  IF n = 0 THEN {<<>>}
  ELSE CallSeqs(offered, n - 1) \cup
       {Append(cs, c) : cs \in {x \in CallSeqs(offered, n - 1) : Len(x) = n - 1},
                        c \in offered}

NoCompletion == [none |-> TRUE, content |-> PyNone, tool_calls |-> <<>>]

\* the completions with at most n tool calls, each one of `offered`
Completions(offered, n) ==
  {NoCompletion}
  \cup {[none |-> FALSE, content |-> Str("Hello"), tool_calls |-> <<>>]}
  \cup {[none |-> FALSE, content |-> PyNone, tool_calls |-> cs] :
          cs \in CallSeqs(offered, n) \ {<<>>}}

\* _process_completion: a content of None becomes ""
_process_completion(completion) ==
  [content |-> IF completion.content = PyNone THEN Str("") ELSE completion.content,
   tool_calls |-> completion.tool_calls]

\* lines 264-265, with the History append moved in front of the None check
NoCompletion_Appends(t, ctx) ==
  /\ turn' = [turn EXCEPT ![t] =
        [ctx EXCEPT !.pc = "done", !.path = "no_completion",
                    !.result = <<PyNone, PyNone>>]]
  /\ running' = "none"
  /\ messages' = Append(messages, AssistantMsg(Str(""), 0))
  /\ UNCHANGED calls

\* lines 264-265: no completion, the turn returns (None, None)
NoCompletionReturn(t, ctx) ==
  /\ turn' = [turn EXCEPT ![t] =
        [ctx EXCEPT !.pc = "done", !.path = "no_completion",
                    !.result = <<PyNone, PyNone>>]]
  /\ running' = "none"
  /\ UNCHANGED <<messages, calls>>

\* lines 262-280: _gpt_call, _process_completion, append of the response
\* message, and the return of a turn without tool calls; the tool calls of
\* the completion are among `offered`
GptCallWith(t, offered) ==
  /\ running = t
  /\ turn[t].pc = "gpt"
  /\ \E completion \in Completions(offered, MaxWork - turns - calls) :
       LET response_message == _process_completion(completion)
           ctx == [turn[t] EXCEPT !.gpt_calls = @ + 1]
       IN IF completion.none
          THEN NoCompletionReturn(t, ctx)
          ELSE /\ calls' = calls + Len(response_message.tool_calls)
               /\ messages' = Append(messages,
                     AssistantMsg(response_message.content,
                                  Len(response_message.tool_calls)))
               /\ IF response_message.tool_calls # <<>>
                  THEN /\ turn' = [turn EXCEPT ![t] =
                             [ctx EXCEPT !.pc = "tools", !.idx = 1,
                                         !.tool_calls = response_message.tool_calls]]
                       /\ running' = t
                  ELSE /\ turn' = [turn EXCEPT ![t] =
                             [ctx EXCEPT !.pc = "done", !.path = "answer",
                                !.result = <<response_message.content,
                                             response_message.content>>]]
                       /\ running' = "none"
  /\ UNCHANGED <<logged_memories, files, wait_task, last_transcript_locale,
                 remember_messages, turns, tasks, loopvars, saved_memories>>

GptCall(t) == GptCallWith(t, ToolCalls)

\* the frames of the coroutines when frame t is ctx: a delayed task that
\* was cancelled while it runs its turn (wait_task.cancel(), line 1016) gets
\* CancelledError at its next suspension
Frames(t, ctx) ==
  [turn EXCEPT !["bg"].must_cancel = IF t = "bg" THEN ctx.must_cancel
                                     ELSE @ \/ ctx.cancels]

\* lines 418-427 with the append moved behind the loop: only the message of
\* the last call reaches History
Appended_LastOnly(t, ctx, msgs, function_response, instant_response) ==
  LET call == ctx.tool_calls[ctx.idx]
      last == ctx.idx = Len(ctx.tool_calls)
      returns == last /\ Truthy(instant_response)
  IN /\ messages' = IF last THEN Append(msgs, ToolMsg(function_response, call.name, ctx.idx))
                     ELSE msgs
     /\ turn' = [Frames(t, ctx) EXCEPT ![t] =
          [ctx EXCEPT !.pc = IF returns THEN "done"
                             ELSE IF last THEN "summarize" ELSE "tools",
                      !.idx = @ + 1,
                      !.path = IF returns THEN "tool_instant" ELSE @,
                      !.function_response = function_response,
                      !.instant_response = instant_response,
                      !.result = IF returns THEN <<PyNone, instant_response>> ELSE @]]
     /\ running' = IF returns THEN "none" ELSE t

\* _handle_tool_calls lines 418-427 for the call at idx: the tool message is
\* appended; after the last call the reply of the last call decides between
\* the return of line 275 and the summarize call
Appended(t, ctx, msgs, function_response, instant_response) ==
  LET call == ctx.tool_calls[ctx.idx]
      last == ctx.idx = Len(ctx.tool_calls)
      returns == last /\ Truthy(instant_response)
  IN /\ messages' = Append(msgs, ToolMsg(function_response, call.name, ctx.idx))
     /\ turn' = [Frames(t, ctx) EXCEPT ![t] =
          [ctx EXCEPT !.pc = IF returns THEN "done"
                             ELSE IF last THEN "summarize" ELSE "tools",
                      !.idx = @ + 1,
                      !.path = IF returns THEN "tool_instant" ELSE @,
                      !.function_response = function_response,
                      !.instant_response = instant_response,
                      !.result = IF returns THEN <<PyNone, instant_response>> ELSE @]]
     /\ running' = IF returns THEN "none" ELSE t

\* `if self.wait_task: self.wait_task.cancel()` before the new task is
\* created: a task that has started its turn is marked, the call may come
\* from that turn itself or from the foreground turn
Replaced(t, ctx, task) ==
  IF task = NoTask \/ wait_task = NoWaitTask \/ tasks[wait_task].state # "started"
  THEN [ctx EXCEPT !.cancels = FALSE]
  ELSE IF t = "bg" THEN [ctx EXCEPT !.must_cancel = TRUE, !.cancels = FALSE]
  ELSE [ctx EXCEPT !.cancels = TRUE]

\* one iteration of the loop of _handle_tool_calls (lines 408-425), up to
\* the await of _play_to_user when the TTS provider really suspends
ToolCall(t) ==
  /\ running = t
  /\ turn[t].pc = "tools"
  /\ LET call == turn[t].tool_calls[turn[t].idx]
     IN \E response \in CallResponses(call) :
       LET out == _execute_command_by_function_call(messages, logged_memories,
                                                     files, call, response)
           ctx == Replaced(t, turn[t], out.task)
       IN IF call.args = "bad" \/ out.raised
          THEN /\ turn' = [turn EXCEPT ![t] = [turn[t] EXCEPT !.pc = "raised"]]
               /\ running' = "none"
               /\ UNCHANGED <<messages, logged_memories, files, wait_task, tasks,
                              saved_memories>>
          ELSE /\ logged_memories' = out.logged_memories
               /\ files' = out.files
               /\ saved_memories' = Written(saved_memories, out.saved)
               /\ tasks' = IF out.task = NoTask THEN tasks
                           ELSE Scheduled(tasks, wait_task, out.task)
               /\ wait_task' = IF out.task = NoTask THEN wait_task ELSE Len(tasks')
               /\ IF out.plays /\ tts_provider = "edge_tts"
                  THEN /\ messages' = out.messages
                       /\ turn' = [Frames(t, ctx) EXCEPT ![t] =
                            [ctx EXCEPT !.pc = IF ctx.must_cancel THEN "cancelled"
                                               ELSE "play",
                                        !.function_response = out.function_response,
                                        !.instant_response = out.instant_response]]
                       /\ running' = "none"
                  ELSE Appended(t, ctx, out.messages, out.function_response,
                                out.instant_response)
  /\ UNCHANGED <<last_transcript_locale, remember_messages, turns, calls, loopvars>>

\* _play_to_user returns into _handle_tool_calls; a task cancelled while it
\* was suspended gets CancelledError instead
PlayDone(t) ==
  /\ running = "none"
  /\ Settled
  /\ turn[t].pc = "play"
  /\ IF turn[t].must_cancel
     THEN /\ turn' = [turn EXCEPT ![t].pc = "cancelled"]
          /\ UNCHANGED <<messages, running>>
     ELSE Appended(t, [turn[t] EXCEPT !.cancels = FALSE], messages,
                   turn[t].function_response, turn[t].instant_response)
  /\ UNCHANGED <<logged_memories, files, wait_task, last_transcript_locale,
                 remember_messages, turns, calls, tasks, loopvars, saved_memories>>

\* lines 277-278: _summarize_function_calls and _finalize_response of its
\* str()
Summarize(t) ==
  /\ running = t
  /\ turn[t].pc = "summarize"
  /\ \E summarize_response \in {PyNone, Str("Summary")} :
       LET finalized == PyStr(summarize_response)
       IN /\ messages' = IF summarize_response = PyNone THEN messages
                         ELSE Append(messages, AssistantMsg(summarize_response, 0))
          /\ turn' = [turn EXCEPT ![t] =
               [@ EXCEPT !.pc = "done", !.summarize_calls = @ + 1,
                         !.path = IF summarize_response = PyNone
                                  THEN "summary_failed" ELSE "summary",
                         !.result = _finalize_response(messages', finalized)]]
  /\ running' = "none"
  /\ UNCHANGED <<logged_memories, files, wait_task, last_transcript_locale,
                 remember_messages, turns, calls, tasks, loopvars, saved_memories>>

\* the caller of the foreground turn gets the reply pair or the exception
Return ==
  /\ turn["fg"].pc \in {"done", "raised"}
  /\ turn' = [turn EXCEPT !["fg"] = IdleTurn]
  /\ UNCHANGED <<messages, logged_memories, files, wait_task, last_transcript_locale,
                 remember_messages, running, turns, calls, tasks, loopvars, saved_memories>>

\* _task that runs its turn with no locale instead of the last one
Fire_FreshLocale ==
  /\ running = "none"
  /\ Settled
  /\ turn["bg"].pc = "idle"
  /\ turns + calls < MaxWork
  /\ \E i \in 1..Len(tasks) :
       /\ tasks[i].state = "pending"
       /\ Enter("bg", tasks[i].action, "none")
       /\ tasks' = [tasks EXCEPT ![i].state = "started"]
  /\ UNCHANGED <<logged_memories, files, wait_task, remember_messages, calls, loopvars,
                 saved_memories>>

\* _wait_then_do_task._task gets the event loop: the sleep, then the turn
\* with the action as transcript and the last locale
Fire ==
  /\ running = "none"
  /\ Settled
  /\ turn["bg"].pc = "idle"
  /\ turns + calls < MaxWork
  /\ \E i \in 1..Len(tasks) :
       /\ tasks[i].state = "pending"
       /\ Enter("bg", tasks[i].action, last_transcript_locale)
       /\ tasks' = [tasks EXCEPT ![i].state = "started"]
  /\ UNCHANGED <<logged_memories, files, wait_task, remember_messages, calls, loopvars, saved_memories>>

\* the end of _task: the reply is played, an Exception is caught and
\* printed, a CancelledError (at the latest at the await of line 1031) ends
\* the task as cancelled
Fired ==
  /\ running = "none"
  /\ turn["bg"].pc \in {"done", "raised", "cancelled"}
  /\ turn' = [turn EXCEPT !["bg"] = IdleTurn]
  /\ tasks' = [i \in 1..Len(tasks) |->
                IF tasks[i].state = "started"
                THEN [tasks[i] EXCEPT !.state =
                        IF turn["bg"].pc = "cancelled" \/ turn["bg"].must_cancel
                        THEN "cancelled" ELSE "done"]
                ELSE tasks[i]]
  /\ UNCHANGED <<messages, logged_memories, files, wait_task, last_transcript_locale,
                 remember_messages, running, turns, calls, loopvars, saved_memories>>

\* the reset as `del self.messages[2]`: one message is dropped
reset_DropsOne(msgs) == DelSlice(msgs, 2, 3)

\* reset_conversation_history: del self.messages[2:]
reset_conversation_history(msgs) == DelSlice(msgs, 2, Len(msgs))

Reset ==
  /\ running = "none"
  /\ Settled
  /\ messages' = reset_conversation_history(messages)
  /\ messages' # messages
  /\ UNCHANGED <<logged_memories, files, wait_task, last_transcript_locale,
                 remember_messages, turn, running, turns, calls, tasks, loopvars, saved_memories>>

Next ==
  \/ Begin
  \/ \E t \in Turns : GptCall(t)
  \/ \E t \in Turns : ToolCall(t)
  \/ \E t \in Turns : PlayDone(t)
  \/ \E t \in Turns : Summarize(t)
  \/ Return
  \/ Fire
  \/ Fired
  \/ Reset

Spec == Init /\ [][Next]_vars

\* ------------------------------------------------- runs of delayed actions
TimerGptCall(t) == GptCallWith(t, TimerCalls)

TimerNext ==
  \/ Begin
  \/ \E t \in Turns : TimerGptCall(t)
  \/ \E t \in Turns : ToolCall(t)
  \/ \E t \in Turns : PlayDone(t)
  \/ \E t \in Turns : Summarize(t)
  \/ Return
  \/ Fire
  \/ Fired

TimerSpec == Init /\ [][TimerNext]_vars

\* ------------------------------------------------ the memory tools alone
\* what prepare() finds in the logged-memories file of an earlier run
InitialMemories == {<<>>, <<<<Str("j"), Str("x")>>>>}

\* the logged-memories file an earlier run left, if it saved anything
InitialFiles ==
  {IF m = <<>> THEN NoFile ELSE Written(NoFile, _save_logged_memories(m)) :
     m \in InitialMemories}

\* the state after the constructor and prepare() (_load_logged_memories)
MemoryInit ==
  /\ saved_memories \in InitialFiles
  /\ LET loaded == _load_logged_memories(
                     <<SystemMsg(Context), SystemMsg(MemorySummary(<<>>))>>, <<>>,
                     saved_memories)
     IN /\ logged_memories = loaded.logged_memories
        /\ messages = loaded.messages
  /\ files = <<>>
  /\ wait_task = NoWaitTask
  /\ last_transcript_locale = "none"
  /\ remember_messages = NoLimit
  /\ turn = [t \in Turns |-> IdleTurn]
  /\ running = "none"
  /\ turns = 0
  /\ calls = 0
  /\ tasks = <<>>
  /\ loop_task = NoLoopTask
  /\ looping = TRUE
  /\ dispatched = NoDispatch
  /\ requested = NoRequest

MemoryCalls ==
  { Call("log_memory", "ok", Str("k"), Str("a"), <<>>, 0),
    Call("log_memory", "ok", Str("k"), Str("b"), <<>>, 0),
    Call("log_memory", "ok", Str("j"), Str("a"), <<>>, 0),
    Call("create_complex_object", "ok", Str("n"), Str("f"), JsonObject, 0),
    Call("create_complex_object", "ok", Str("f"), Str("f"), JsonObject, 0),
    Call("create_complex_object", "ok", Str("f"), Str("f"), Str(""), 0),
    Call("create_complex_object", "ok", <<"h", ".json">>, Str("h"), JsonObject, 0),
    Call("get_complex_object", "ok", <<"h", ".json">>, <<>>, <<>>, 0),
    Call("get_complex_object", "ok", Str("f"), <<>>, <<>>, 0),
    Call("get_complex_object", "ok", Str("n"), <<>>, <<>>, 0),
    Call("modify_complex_object", "ok", Str("f"), Str("p"), JsonString, 0),
    Call("modify_complex_object", "ok", Str("f"), Str("p"), NotJson, 0),
    Call("modify_complex_object", "ok", Str("g"), Str("p"), JsonString, 0) }

\* execute_command of a command of the catalog and of a name it lacks
CommandCalls ==
  { Call("execute_command", "ok", Str("gear"), <<>>, <<>>, 0),
    Call("execute_command", "ok", Str("warp"), <<>>, <<>>, 0) }

\* _execute_command_by_function_call applied to one call of a memory tool
\* or of execute_command; `dispatched` keeps the call, what it returned or
\* that it raised, and the stores it found
Dispatch ==
  /\ calls < MaxCalls
  /\ \E call \in MemoryCalls \cup CommandCalls : \E response \in CallResponses(call) :
       LET out == _execute_command_by_function_call(messages, logged_memories,
                                                     files, call, response)
       IN /\ messages' = out.messages
          /\ logged_memories' = out.logged_memories
          /\ files' = out.files
          /\ saved_memories' = Written(saved_memories, out.saved)
          /\ dispatched' = [call |-> call,
                            function_response |-> out.function_response,
                            instant_response |-> out.instant_response,
                            raised |-> out.raised,
                            logged_memories |-> logged_memories,
                            files |-> files,
                            loop_task |-> loop_task]
  /\ calls' = calls + 1
  /\ UNCHANGED <<wait_task, last_transcript_locale, remember_messages, turn,
                 running, turns, tasks, loop_task, looping, requested>>

MemoryNext == Dispatch

MemorySpec == MemoryInit /\ [][MemoryNext]_vars

\* ------------------------------------- turns over memories of an earlier run
\* the state after the constructor and prepare(), with any retention limit
SummaryInit ==
  /\ saved_memories \in InitialFiles
  /\ LET loaded == _load_logged_memories(
                     <<SystemMsg(Context), SystemMsg(MemorySummary(<<>>))>>, <<>>,
                     saved_memories)
     IN /\ logged_memories = loaded.logged_memories
        /\ messages = loaded.messages
  /\ files = <<>>
  /\ wait_task = NoWaitTask
  /\ last_transcript_locale = "none"
  /\ remember_messages \in {NoLimit} \cup 0..MaxRemember
  /\ turn = [t \in Turns |-> IdleTurn]
  /\ running = "none"
  /\ turns = 0
  /\ calls = 0
  /\ tasks = <<>>
  /\ loop_task = NoLoopTask
  /\ looping = TRUE
  /\ dispatched = NoDispatch
  /\ requested = NoRequest

\* the tool calls that write a memory
SummaryCalls ==
  { Call("log_memory", "ok", Str("k"), Str("a"), <<>>, 0),
    Call("log_memory", "ok", Str("j"), Str("a"), <<>>, 0),
    Call("create_complex_object", "ok", Str("n"), Str("f"), JsonObject, 0),
    Call("modify_complex_object", "ok", Str("f"), Str("p"), JsonString, 0) }

SummaryGptCall == GptCallWith("fg", SummaryCalls)

SummaryNext ==
  \/ Begin
  \/ SummaryGptCall
  \/ ToolCall("fg")
  \/ Summarize("fg")
  \/ Return
  \/ Reset

SummarySpec == SummaryInit /\ [][SummaryNext]_vars

\* ------------------------------------------------------ the command loop
\* `amount` of _loop when the caller passes none, as line 1046 does
DefaultAmount == 0 - 1

\* what a loop handler leaves behind
LoopOutcome(function_response, task, lp) ==
  [function_response |-> function_response, loop_task |-> task, looping |-> lp]

\* loop_task.cancel(): a task that has not started never runs; the task that
\* runs is the caller itself (line 1058) and returns right after; a task
\* that has ended is left as it is
CancelLoop(task) ==
  IF task.state = "pending" THEN [task EXCEPT !.state = "cancelled"] ELSE task

\* _start_command_loop that cancels the existing task before it looks at
\* the amount
start_ChecksAmountLate(task, lp, command_name, amount) ==
  IF amount = 0 THEN LoopOutcome(Str("Nevermind then"), CancelLoop(task), lp)
  ELSE LoopOutcome(Str("Starting command loop"),
                   [state |-> "pending", command |-> CommandNamed(command_name).name,
                    asked |-> amount, amount |-> DefaultAmount, looped |-> 0],
                   TRUE)

\* _start_command_loop(command_name, interval, amount): the new task runs
\* self._loop(command, interval), so _loop gets its default amount
_start_command_loop(task, lp, command_name, amount) ==
  IF amount = 0 THEN LoopOutcome(Str("Nevermind then"), task, lp)
  ELSE LoopOutcome(Str("Starting command loop"),
                   [state |-> "pending", command |-> CommandNamed(command_name).name,
                    asked |-> amount, amount |-> DefaultAmount, looped |-> 0],
                   TRUE)

\* _stop_command_loop: `if self.loop_task:` is true of every Task object,
\* self.loop_task is None only before the first start
_stop_command_loop(task, lp) ==
  IF task # NoLoopTask
  THEN LoopOutcome(Str("Stopping command loop"), CancelLoop(task), FALSE)
  ELSE LoopOutcome(Str("No command to stop"), task, lp)

LoopCommands == {"gear", "lights"}
Amounts == {DefaultAmount, 0, 1, 2}

\* what `dispatched` keeps of a loop handler
LoopDispatched(call, out) ==
  [call |-> call, function_response |-> out.function_response,
   instant_response |-> Str(""), raised |-> FALSE,
   logged_memories |-> logged_memories, files |-> files, loop_task |-> loop_task]

\* the tool call start_command_loop (lines 533-538) while the turn owns the
\* event loop
StartCommandLoop ==
  /\ running = "none"
  /\ calls < MaxCalls
  /\ \E command_name \in LoopCommands, amount \in Amounts :
       LET out == _start_command_loop(loop_task, looping, Str(command_name), amount)
       IN /\ loop_task' = out.loop_task
          /\ looping' = out.looping
          /\ dispatched' = LoopDispatched(
                Call("start_command_loop", "ok", Str(command_name), <<>>, <<>>, amount), out)
  /\ calls' = calls + 1
  /\ requested' = NoRequest
  /\ UNCHANGED <<messages, logged_memories, files, wait_task, last_transcript_locale,
                 remember_messages, turn, running, turns, tasks, saved_memories>>

\* the tool call stop_command_loop (lines 540-541)
StopCommandLoop ==
  /\ running = "none"
  /\ calls < MaxCalls
  /\ LET out == _stop_command_loop(loop_task, looping)
     IN /\ loop_task' = out.loop_task
        /\ looping' = out.looping
        /\ dispatched' = LoopDispatched(
              Call("stop_command_loop", "ok", <<>>, <<>>, <<>>, 0), out)
  /\ calls' = calls + 1
  /\ requested' = NoRequest
  /\ UNCHANGED <<messages, logged_memories, files, wait_task, last_transcript_locale,
                 remember_messages, turn, running, turns, tasks, saved_memories>>

\* the event loop is free and runs the first step of the loop task: _loop
\* has no await, so the task keeps the event loop until _loop returns
LoopStart ==
  /\ running = "none"
  /\ loop_task.state = "pending"
  /\ loop_task' = [loop_task EXCEPT !.state = "running", !.looped = 0]
  /\ running' = "loop"
  /\ UNCHANGED <<messages, logged_memories, files, wait_task, last_transcript_locale,
                 remember_messages, turn, turns, calls, tasks, looping, dispatched,
                 requested, saved_memories>>

\* one test of `while self.looping and amount < looped` (line 1052): the
\* thread enters time.sleep(interval) of line 1053, or _loop returns through
\* line 1058
LoopStep ==
  /\ running = "loop"
  /\ loop_task.state = "running"
  /\ IF looping /\ loop_task.amount < loop_task.looped
     THEN /\ loop_task.looped < MaxLooped
          /\ loop_task' = [loop_task EXCEPT !.state = "sleeping"]
          /\ UNCHANGED <<looping, running>>
     ELSE LET out == _stop_command_loop(loop_task, looping)
          IN /\ loop_task' = [out.loop_task EXCEPT !.state = "done"]
             /\ looping' = out.looping
             /\ running' = "none"
  /\ UNCHANGED <<messages, logged_memories, files, wait_task, last_transcript_locale,
                 remember_messages, turn, turns, calls, tasks, dispatched,
                 requested, saved_memories>>

\* time.sleep returns: _execute_command(command) and looped += 1 (lines
\* 1054-1055); nothing between the sleep and the command looks at looping
LoopWake ==
  /\ running = "loop"
  /\ loop_task.state = "sleeping"
  /\ loop_task' = [loop_task EXCEPT !.state = "running", !.looped = @ + 1]
  /\ UNCHANGED <<messages, logged_memories, files, wait_task, last_transcript_locale,
                 remember_messages, turn, running, turns, calls, tasks, looping,
                 dispatched, saved_memories, requested>>

\* the user asks for stop_command_loop or a replacing start_command_loop
\* while the loop sleeps: the request is a turn that has to run on the
\* event loop (lines 533-541 are reached from _handle_tool_calls); it
\* keeps the number of executions it found
RequestStop ==
  /\ loop_task.state = "sleeping"
  /\ ~requested.made
  /\ requested' = [made |-> TRUE, looped |-> loop_task.looped]
  /\ UNCHANGED <<messages, logged_memories, files, wait_task, last_transcript_locale,
                 remember_messages, turn, running, turns, calls, tasks, loop_task,
                 looping, dispatched, saved_memories>>

LoopNext ==
  \/ StartCommandLoop
  \/ StopCommandLoop
  \/ LoopStart
  \/ LoopStep
  \/ LoopWake
  \/ RequestStop

LoopSpec == Init /\ [][LoopNext]_vars

\* ================================================================ claims
Last(msgs) == msgs[Len(msgs)]
Active(t) == turn[t].pc # "idle"
MatchesInstant(transcript) == _execute_instant_activation_command(transcript) # NoCommand
\* the call speaks: execute_command of a command with response variants
Speaks(call) == call.name = "execute_command" /\ call.args = "ok"
                /\ Len(CommandNamed(call.a).responses) > 0
\* some call of the round that has been executed spoke an instant reply
RoundSpoke(ctx) == \E i \in 1..Len(ctx.tool_calls) : i < ctx.idx /\ Speaks(ctx.tool_calls[i])

\* C1: a turn whose transcript matches an instant-activation command, with
\* any number of response variants, never calls the model.
C1_InstantNeverCallsModel ==
  \A t \in Turns :
    (Active(t) /\ MatchesInstant(turn[t].transcript)) => turn[t].gpt_calls = 0

\* C2: the calls of a round run in the order of the completion; the step
\* that completes call i appends exactly its tool message (name and id of
\* call i) to the tail of History before call i+1 runs, and a
\* get_complex_object that follows the create_complex_object of the same
\* file sees the document that call stored.
C2_ToolCallsInOrder ==
  [][\A t \in Turns :
       (turn[t].pc \in {"tools", "play"} /\ turn[t].idx # turn[t].idx') =>
         LET i == turn[t].idx
             call == turn[t].tool_calls[i]
         IN /\ turn[t].idx' = i + 1
            /\ Len(messages') = Len(messages) + 1
            /\ \A j \in 1..Len(messages) : j # 2 => messages'[j] = messages[j]
            /\ Last(messages').role = "tool"
            /\ Last(messages').name = call.name
            /\ Last(messages').tool_call_id = i
            /\ (turn[t].pc' = "tools" => turn[t].tool_calls'[i + 1] = turn[t].tool_calls[i + 1])
            /\ (/\ i > 1
                /\ call.name = "get_complex_object"
                /\ turn[t].tool_calls[i - 1].name = "create_complex_object"
                /\ turn[t].tool_calls[i - 1].a = call.a)
               => Last(messages').content = Repr(JsonLoads(turn[t].tool_calls[i - 1].c).value)
    ]_vars

C2_Witness ==
  \E t \in Turns :
    /\ turn[t].pc = "summarize"
    /\ Len(turn[t].tool_calls) = 2
    /\ turn[t].tool_calls[1].name = "create_complex_object"
    /\ turn[t].tool_calls[2].name = "get_complex_object"
    /\ Last(messages).content = Repr(JsonLoads(JsonObject).value)
    /\ messages[Len(messages) - 1].role = "tool"
    /\ messages[Len(messages) - 1].tool_call_id = 1

\* C3: every tool call ends in one tool message, also when its handler
\* fails; no failure of a handler is raised out of the turn.
C3_ToolFailureNeverRaised ==
  \A t \in Turns : turn[t].pc # "raised"

\* C4: when a call at any position of the round spoke an instant reply, the
\* turn makes no summarize call and returns that instant text.
C4_AnyInstantReplySkipsSummary ==
  \A t \in Turns :
    (turn[t].pc \in {"summarize", "done"} /\ RoundSpoke(turn[t])) =>
      /\ turn[t].pc = "done"
      /\ turn[t].summarize_calls = 0
      /\ Truthy(turn[t].result[2])

\* C5: when the summarize call returns no completion the reply is the
\* content of the last message of History, and nothing was appended.
C5_SummaryFailureFallsBack ==
  \A t \in Turns :
    turn[t].path = "summary_failed" =>
      turn[t].result = <<Last(messages).content, Last(messages).content>>

\* C6: when the first model call returns no completion the turn returns
\* (None, None), History is the trimmed History plus the user message of the
\* turn, no delayed task was started, nothing was raised and the event loop
\* is free; once the caller has the reply the turn is idle again, as it is
\* before any transcript.
C6_NoCompletionEndsTurn ==
  [][/\ \A t \in Turns :
          (turn[t].path' = "no_completion" /\ turn[t].path # "no_completion") =>
            /\ turn[t].pc' = "done"
            /\ turn[t].result' = <<PyNone, PyNone>>
            /\ messages' = Append(turn[t].cleaned, UserMsg(Str(turn[t].transcript)))
            /\ wait_task' = wait_task
            /\ logged_memories' = logged_memories /\ files' = files
            /\ running' = "none"
     /\ (turn["fg"].path = "no_completion" /\ turn["fg"]' # turn["fg"]) =>
          (turn["fg"]' = IdleTurn /\ running' = "none" /\ messages' = messages)
    ]_vars

\* the second turn of a run, after a first turn that got no completion
C6_Witness ==
  /\ turn["fg"].path = "no_completion"
  /\ turns = 2
  /\ Len(messages) = 4
  /\ messages[3] = UserMsg(Str("hello"))
  /\ messages[4] = UserMsg(Str("hello"))

\* C7: right after the trim, History holds at most remember_messages
\* user-role messages, for every remember_messages >= 0.
C7_TrimKeepsAtMostN ==
  \A t \in Turns :
    (Active(t) /\ remember_messages >= 0) =>
      UserCount(turn[t].cleaned) <= remember_messages

\* C8: History always starts with the two system messages of the
\* constructor, the context and then the memory summary (whose content is
\* a "{ ... }" rendering), and holds no other system message.
C8_SystemPrefixKept ==
  /\ Len(messages) >= 2
  /\ messages[1] = SystemMsg(Context)
  /\ messages[2] = SystemMsg(messages[2].content)
  /\ Head(messages[2].content) = "{ "
  /\ \A i \in 3..Len(messages) : messages[i].role # "system"

C8_Witness ==
  /\ remember_messages = 0
  /\ \E t \in Turns : Active(t) /\ Len(turn[t].cleaned) < Len(turn[t].before)
  /\ logged_memories # <<>>
  /\ \E i \in 1..Len(tasks) : tasks[i].state = "started"

\* C9: with remember_messages = 0 the trim leaves what reset() leaves, the
\* system prefix alone.
C9_TrimZeroIsReset ==
  \A t \in Turns :
    (Active(t) /\ remember_messages = 0) =>
      turn[t].cleaned = reset_conversation_history(turn[t].before)

\* C10 as stated: with remember_messages = N >= 1, History holds at most N
\* user-role messages once the user message of a turn is appended.
C10_AtMostNUserMessages ==
  remember_messages >= 1 => UserCount(messages) <= remember_messages

\* C10 amended: with remember_messages = N >= 1, History holds at most N + 1
\* user-role messages: the N the trim keeps and the one appended after it.
C10_AtMostNPlusOne ==
  remember_messages >= 1 => UserCount(messages) <= remember_messages + 1

C10_Witness ==
  /\ remember_messages = 1
  /\ UserCount(messages) = 2
  /\ \E t \in Turns : Active(t) /\ turn[t].deleted > 0

\* C11: from every History, reset_conversation_history applied twice leaves
\* what it leaves applied once, and that is exactly the two messages of the
\* system prefix.
C11_ResetIdempotent ==
  LET once == reset_conversation_history(messages)
  IN /\ reset_conversation_history(once) = once
     /\ once = SubSeq(messages, 1, 2)

\* the History a reset left after two turns: without a retention limit
\* nothing else shortens History
C11_Witness ==
  /\ turns = 2
  /\ Len(messages) = 2
  /\ remember_messages = NoLimit
  /\ reset_conversation_history(messages) = messages

KeyCount(d, k) == Cardinality({i \in 1..Len(d) : d[i][1] = k})
\* the items of d other than that of k are items of e, at the same place
OthersKept(d, e, k) ==
  \A i \in 1..Len(d) : d[i][1] # k => (i <= Len(e) /\ e[i] = d[i])

\* C12: after log_memory(name, value) the scalar mapping has exactly one
\* entry for name, its value is value, and every other entry is as it was,
\* also when name was logged before with another value.
C12_LogMemoryOverwrites ==
  (dispatched.call.name = "log_memory" /\ ~dispatched.raised) =>
    LET name == dispatched.call.a
        value == dispatched.call.b
    IN /\ KeyCount(logged_memories, name) = 1
       /\ DictGet(logged_memories, name) = value
       /\ OthersKept(dispatched.logged_memories, logged_memories, name)
       /\ OthersKept(logged_memories, dispatched.logged_memories, name)

\* log_memory(k, b) on a mapping that held k -> a and another entry
C12_Witness ==
  /\ dispatched.call = Call("log_memory", "ok", Str("k"), Str("b"), <<>>, 0)
  /\ HasKey(dispatched.logged_memories, Str("k"))
  /\ DictGet(dispatched.logged_memories, Str("k")) = Str("a")
  /\ Len(dispatched.logged_memories) = 2
  /\ Len(logged_memories) = 2

\* C13: after create_complex_object(name, file_name, content) the document
\* get_complex_object(file_name) returns is the parsed content (the empty
\* document for an empty content), and the scalar mapping maps name to
\* file_name, for equal and for different name and file_name.
C13_CreateKeyedByFileName ==
  (dispatched.call.name = "create_complex_object" /\ ~dispatched.raised) =>
    LET name == dispatched.call.a
        file_name == dispatched.call.b
        content == dispatched.call.c
        stored == _get_complex_memory(files, file_name)
    IN /\ stored.found
       /\ stored.obj = (IF Truthy(content) THEN JsonLoads(content).value ELSE <<>>)
       /\ HasKey(logged_memories, name)
       /\ DictGet(logged_memories, name) = file_name

\* C14: modify_complex_object on a file_name without a persisted object
\* returns a result to its caller (nothing is raised) and leaves the
\* persisted objects and the scalar mapping as they were.
C14_ModifyMissingReturnsNotFound ==
  (/\ dispatched.call.name = "modify_complex_object"
   /\ ~_get_complex_memory(dispatched.files, dispatched.call.a).found) =>
    /\ ~dispatched.raised
    /\ files = dispatched.files
    /\ logged_memories = dispatched.logged_memories

\* C15: modify_complex_object with a value that json.loads rejects leaves
\* every stored document and the scalar mapping as they were.
C15_MalformedValueChangesNothing ==
  (/\ dispatched.call.name = "modify_complex_object"
   /\ ~JsonLoads(dispatched.call.c).ok) =>
    /\ files = dispatched.files
    /\ logged_memories = dispatched.logged_memories
    /\ messages[2].content = MemorySummary(dispatched.logged_memories)

\* the malformed value for a file that holds a document, next to another
\* document
C15_Witness ==
  /\ dispatched.call = Call("modify_complex_object", "ok", Str("f"), Str("p"), NotJson, 0)
  /\ dispatched.raised
  /\ _get_complex_memory(files, Str("f")).found
  /\ Len(files) = 2
  /\ logged_memories # <<>>

\* the delayed tasks that are scheduled and have not started
PendingTasks(ts) == {i \in 1..Len(ts) : ts[i].state = "pending"}
\* the delayed tasks that are scheduled or run their turn
LiveTasks(ts) == {i \in 1..Len(ts) : ts[i].state \in {"pending", "started"}}

\* C16: the step of a wait_for_then call leaves exactly one delayed task
\* scheduled, the new one, with the wait time and the action of the call
\* and referred to by self.wait_task; a task that was pending before is
\* cancelled, a cancelled task stays cancelled, and the only task that
\* ever starts is the one self.wait_task refers to.
C16_NewestReplacesPending ==
  [][/\ \A t \in Turns :
          (/\ running = t
           /\ turn[t].pc = "tools"
           /\ turn[t].tool_calls[turn[t].idx].name = "wait_for_then"
           /\ turn[t].pc' # "raised") =>
            /\ Len(tasks') = Len(tasks) + 1
            /\ wait_task' = Len(tasks')
            /\ tasks'[wait_task'] =
                 [state |-> "pending",
                  wait_time |-> turn[t].tool_calls[turn[t].idx].n,
                  action |-> turn[t].tool_calls[turn[t].idx].a[1]]
            /\ PendingTasks(tasks') = {wait_task'}
            /\ \A i \in PendingTasks(tasks) : tasks'[i].state = "cancelled"
     /\ \A i \in 1..Len(tasks) :
          /\ tasks[i].state = "cancelled" => tasks'[i].state = "cancelled"
          /\ (tasks[i].state = "pending" /\ tasks'[i].state = "started") => i = wait_task
    ]_vars

\* two wait_for_then in a row: the first task was cancelled while pending,
\* the second one has started its turn with its own action
C16_Witness ==
  /\ Len(tasks) = 2
  /\ tasks[1] = [state |-> "cancelled", wait_time |-> 1, action |-> "hello"]
  /\ tasks[2] = [state |-> "started", wait_time |-> 2, action |-> "fire"]
  /\ wait_task = 2
  /\ turn["bg"].transcript = "fire"

\* the loop tasks that are scheduled or running
LiveLoopTasks == IF loop_task.state \in {"pending", "running", "sleeping"} THEN 1 ELSE 0

\* C17: in every state at most one delayed task and at most one loop task
\* is live (scheduled or running), also when a task is replaced while it
\* runs its fire action.
C17_AtMostOneLiveTaskPerKind ==
  /\ Cardinality(LiveTasks(tasks)) <= 1
  /\ LiveLoopTasks <= 1

\* C18: once cancel() was called on a delayed task, no step of that task
\* appends to History or calls the model.
C18_CancelledTaskDoesNothing ==
  [][(/\ turn["bg"].must_cancel
      /\ turn["bg"]' # turn["bg"]
      /\ turn["bg"].pc' # "idle") =>
       /\ messages' = messages
       /\ turn["bg"].gpt_calls' = turn["bg"].gpt_calls
       /\ turn["bg"].summarize_calls' = turn["bg"].summarize_calls
    ]_vars

\* C19: a loop started with amount k > 0 never executes its command more
\* than k times, and after the k-th execution it has ended on its own.
C19_LoopRunsExactlyAmount ==
  (loop_task.asked > 0 /\ loop_task.state \in {"running", "sleeping", "done"}) =>
    /\ loop_task.looped <= loop_task.asked
    /\ loop_task.state = "done" => loop_task.looped = loop_task.asked

\* C20: stop_command_loop answers "Stopping command loop" exactly when a
\* loop task was scheduled or running at the call, and "No command to stop"
\* when none was: never started, ended, or stopped before.
C20_StopReportsWhatItFound ==
  dispatched.call.name = "stop_command_loop" =>
    /\ dispatched.loop_task.state \in {"pending", "running"}
         => dispatched.function_response = Str("Stopping command loop")
    /\ dispatched.loop_task.state \notin {"pending", "running"}
         => dispatched.function_response = Str("No command to stop")

\* the turn of t is between its first History append and its return
InProgress(t) == turn[t].pc \in {"gpt", "tools", "play", "summarize"}

\* C21: at most one turn is in progress; a delayed action that fires while
\* the foreground turn is suspended in playback appends nothing to History
\* before the foreground turn has finished.
C21_OneTurnAtATime ==
  ~(InProgress("fg") /\ InProgress("bg"))

\* the turn of t has returned on one of the four paths with a reply
Completed(t) ==
  /\ turn[t].pc = "done"
  /\ turn[t].path \in {"instant", "answer", "tool_instant", "summary"}

C23_StopPreventsPendingIteration ==
  requested.made => loop_task.looped = requested.looped

\* C24: the interval sleep does not hold the event loop: a step taken while
\* a request waits and the loop sleeps either processes the request or
\* leaves the loop in its sleep, so the request is processed before the
\* wait ends.
C24_RequestProcessedBeforeWaitEnds ==
  [][(requested.made /\ loop_task.state = "sleeping") =>
       (~requested'.made \/ loop_task'.state = "sleeping")]_vars

C26_AmountZeroDeclined ==
  [][(/\ calls' = calls + 1
      /\ dispatched'.call.name = "start_command_loop"
      /\ dispatched'.call.n = 0) =>
       /\ dispatched'.function_response = Str("Nevermind then")
       /\ loop_task' = loop_task
       /\ looping' = looping
       /\ tasks' = tasks
       /\ wait_task' = wait_task]_vars

\* a start with amount 0 was declined while a loop was scheduled
C26_Witness ==
  /\ dispatched.call.name = "start_command_loop"
  /\ dispatched.call.n = 0
  /\ dispatched.function_response = Str("Nevermind then")
  /\ dispatched.loop_task.state = "pending"
  /\ loop_task = dispatched.loop_task

\* C27: a tool call whose name is none of the known tool names is a no-op:
\* the step that handles it yields an empty result text and an empty
\* instant reply, leaves the memories, their files, the delayed tasks and
\* the command loop alone, and appends exactly the one tool message with
\* empty content to History.
C27_UnknownToolIsNoOp ==
  [][\A t \in Turns :
       (/\ running = t
        /\ turn[t].pc = "tools"
        /\ turn[t].tool_calls[turn[t].idx].name = "bogus"
        /\ turn'[t].idx = turn[t].idx + 1) =>
          /\ turn'[t].function_response = Str("")
          /\ turn'[t].instant_response = Str("")
          /\ messages' = Append(messages, ToolMsg(Str(""), "bogus", turn[t].idx))
          /\ logged_memories' = logged_memories
          /\ files' = files
          /\ saved_memories' = saved_memories
          /\ tasks' = tasks
          /\ wait_task' = wait_task
          /\ loop_task' = loop_task
          /\ looping' = looping]_vars

\* a round of the one call "bogus" has been handled after a memory was
\* logged
C27_Witness ==
  /\ turn["fg"].pc = "summarize"
  /\ Len(turn["fg"].tool_calls) = 1
  /\ turn["fg"].tool_calls[1].name = "bogus"
  /\ Last(messages) = ToolMsg(Str(""), "bogus", 1)
  /\ logged_memories # <<>>

\* C28: when execute_command names a command the catalog does not contain,
\* the result text is not the "Ok" of a successful execution and there is
\* no instant reply.
C28_UnknownCommandReported ==
  (/\ dispatched.call.name = "execute_command"
   /\ CommandNamed(dispatched.call.a) = NoCommand
   /\ ~dispatched.raised) =>
     /\ dispatched.function_response # Str("Ok")
     /\ dispatched.instant_response = Str("")

\* C29: in every state between two handlers the second message of History
\* is the memory-summary system message and its content is the serialized
\* view of the current scalar mapping, after the startup load, after every
\* log_memory and create_complex_object, and after any trim, reset or turn.
C29_SummaryIsCurrent ==
  /\ Len(messages) >= 2
  /\ messages[2].role = "system"
  /\ messages[2].content = MemorySummary(logged_memories)

\* a turn has trimmed History after a memory was added to the one loaded at
\* startup
C29_Witness ==
  /\ turn["fg"].pc # "idle"
  /\ turn["fg"].cleaned # turn["fg"].before
  /\ saved_memories.exists
  /\ Len(logged_memories) = 2
  /\ logged_memories[1][1] = Str("j")
  /\ messages[2].content = MemorySummary(logged_memories)

Suffix(msgs, k) == SubSeq(msgs, k + 1, Len(msgs))

\* C31: the trim deletes one contiguous block directly after the system
\* prefix: History after the trim of a turn is the two system messages
\* followed by a suffix of History before it, same messages, same order.
C31_TrimDeletesOneBlock ==
  \A t \in Turns :
    Active(t) =>
      \E k \in 2..Len(turn[t].before) :
        turn[t].cleaned = SubSeq(turn[t].before, 1, 2) \o Suffix(turn[t].before, k)

\* a trim under a limit of at least one has deleted several messages and
\* kept several
C31_Witness ==
  /\ remember_messages >= 1
  /\ Active("fg")
  /\ Len(turn["fg"].before) - Len(turn["fg"].cleaned) >= 2
  /\ Len(turn["fg"].cleaned) >= 4

\* C32: when the retention policy is unset, or History holds fewer
\* user-role messages than the limit, the trim of a turn deletes nothing:
\* History is unchanged and the count returned is 0.
C32_BelowLimitTrimsNothing ==
  \A t \in Turns :
    (/\ Active(t)
     /\ \/ remember_messages = NoLimit
        \/ UserCount(turn[t].before) < remember_messages) =>
      /\ turn[t].cleaned = turn[t].before
      /\ turn[t].deleted = 0

\* a turn began with one user message and its replies in History under a
\* limit of two
C32_Witness ==
  /\ remember_messages = 2
  /\ Active("fg")
  /\ UserCount(turn["fg"].before) = 1
  /\ Len(turn["fg"].before) >= 5
  /\ turn["fg"].cleaned = turn["fg"].before

\* every tool message of msgs comes after an assistant message that asked
\* for at least as many tool calls as the position of its call
ToolsFollowRequest(msgs) ==
  \A i \in 1..Len(msgs) :
    msgs[i].role = "tool" =>
      \E j \in 1..(i - 1) : /\ msgs[j].role = "assistant"
                             /\ msgs[j].tool_calls >= msgs[i].tool_call_id

\* C33: the trim never separates a tool result from its request: in History
\* after the trim of a turn, under any limit, every tool message still has
\* the assistant message that requested it in front of it.
C33_TrimKeepsToolWithRequest ==
  \A t \in Turns :
    (Active(t) /\ ToolsFollowRequest(turn[t].before)) =>
      ToolsFollowRequest(turn[t].cleaned)

\* C35: the count the trim returns is the number of messages it removed
\* from History, under every limit, and is never negative.
C35_CountIsWhatWasRemoved ==
  \A t \in Turns :
    Active(t) =>
      /\ turn[t].deleted = Len(turn[t].before) - Len(turn[t].cleaned)
      /\ turn[t].deleted >= 0

\* C34: saving and reading a complex object round-trip for every file
\* name: after create_complex_object has saved a document under a name,
\* _get_complex_memory of the same name finds that document, also when the
\* name already ends in ".json".
C34_SaveGetRoundTrip ==
  (dispatched.call.name = "create_complex_object" /\ ~dispatched.raised) =>
    /\ _get_complex_memory(files, dispatched.call.a).found
    /\ _get_complex_memory(files, dispatched.call.a).obj =
         (IF Truthy(dispatched.call.c) THEN JsonLoads(dispatched.call.c).value ELSE <<>>)

====
